---- MODULE Spec2Model ----
(***************************************************************************)
(* Model of the dealer-positioning engine of src/greeks.py: the            *)
(* Black-Scholes primitives of class Greeks and the DealerBook that holds  *)
(* one option-chain snapshot (a pandas DataFrame), estimates the dealer    *)
(* inventory, computes the exposures and answers the aggregate queries.    *)
(*                                                                         *)
(* Reals are fixed-point integers: a real x is held as x * FP.  Prices     *)
(* (spot, strike), open interest and volumes are plain integers.  The      *)
(* time to expiry T is held in units of 1/TScale years, so that the floor  *)
(* 0.0001 of the constructor is the value ClipLower = 1.                   *)
(* A DataFrame is a non-empty sequence of rows; a row is a function from   *)
(* the column names that are present to the values.  Reading a column      *)
(* that is absent is the KeyError of pandas.                               *)
(***************************************************************************)
EXTENDS Integers, Sequences, FiniteSets, TLC

\* ------------------------------------------------------------------------
\* Fixed-point arithmetic
\* ------------------------------------------------------------------------
FP == 1000
TScale == 10000

Abs(x) == IF x < 0 THEN -x ELSE x
Mul(a, b) == (a * b) \div FP
Div(a, b) == (a * FP) \div b

\* the value itself where its sign was meant
np_sign_omitted(x) == x

\* zero counted as positive
np_sign_zero_positive(x) == IF x >= 0 THEN 1 ELSE -1

\* np.sign
np_sign(x) == IF x > 0 THEN 1 ELSE IF x < 0 THEN -1 ELSE 0

\* Integer square root by Newton's iteration, descending from x >= sqrt(n)
RECURSIVE ISqrt(_, _)
ISqrt(n, x) ==
    LET y == (x + n \div x) \div 2
    IN IF y >= x THEN x ELSE ISqrt(n, y)

\* np.sqrt(T), T > 0 in 1/TScale years, result in fixed point
np_sqrt(T) ==
    LET n == T * ((FP * FP) \div TScale)
    IN ISqrt(n, IF n > FP * FP THEN n ELSE FP)

\* np.log(x) for a fixed-point x > 0: 2 * atanh((x - 1) / (x + 1)), the
\* series cut after the fifth power
np_log(x) ==
    LET z  == Div(x - FP, x + FP)
        z3 == Mul(Mul(z, z), z)
        z5 == Mul(Mul(z3, z), z)
    IN 2 * (z + z3 \div 3 + z5 \div 5)

\* np.exp(x) for a small fixed-point x: the Taylor series cut after x^3
np_exp(x) == FP + x + Mul(x, x) \div 2 + Mul(Mul(x, x), x) \div 6

\* norm.pdf sampled every 0.25 from 0 to 4 and interpolated linearly; the
\* density is even and below the resolution of FP beyond 3.75
PdfTable == << 399, 387, 352, 301, 242, 183, 130, 86, 54, 32, 18, 9, 4, 2, 1, 0, 0 >>
PdfStep == 250
norm_pdf(x) ==
    LET a == Abs(x)
        i == a \div PdfStep
    IN IF i >= Len(PdfTable) - 1 THEN 0
       ELSE LET lo == PdfTable[i + 1]
                hi == PdfTable[i + 2]
            IN lo - ((lo - hi) * (a - i * PdfStep)) \div PdfStep

\* norm.cdf sampled every 0.25 from 0 to 4 and interpolated linearly; for a
\* negative argument it is 1 - cdf(-x)
CdfTable ==
    << 500, 599, 691, 773, 841, 894, 933, 960, 977, 988, 994, 997, 999, 999,
       1000, 1000, 1000 >>
norm_cdf(x) ==
    LET a == Abs(x)
        i == a \div PdfStep
        upper == IF i >= Len(CdfTable) - 1 THEN FP
                 ELSE LET lo == CdfTable[i + 1]
                          hi == CdfTable[i + 2]
                      IN lo + ((hi - lo) * (a - i * PdfStep)) \div PdfStep
    IN IF x >= 0 THEN upper ELSE FP - upper

\* ------------------------------------------------------------------------
\* class Greeks
\* ------------------------------------------------------------------------
d1(S, K, T, r, sigma) ==
    Div(np_log(Div(S, K)) + ((r + Mul(sigma, sigma) \div 2) * T) \div TScale,
        Mul(sigma, np_sqrt(T)))

d2(S, K, T, r, sigma) == d1(S, K, T, r, sigma) - Mul(sigma, np_sqrt(T))

calculate_gamma(S, K, T, r, sigma) ==
    IF T <= 0 THEN 0
    ELSE Div(norm_pdf(d1(S, K, T, r, sigma)), S * Mul(sigma, np_sqrt(T)))

\* the put delta taken as 1 - cdf(d1)
calculate_delta_put_complement(S, K, T, r, sigma, option_type) ==
    IF T <= 0 THEN 0
    ELSE IF option_type = "call" THEN norm_cdf(d1(S, K, T, r, sigma))
         ELSE FP - norm_cdf(d1(S, K, T, r, sigma))

calculate_delta(S, K, T, r, sigma, option_type) ==
    IF T <= 0 THEN 0
    ELSE IF option_type = "call" THEN norm_cdf(d1(S, K, T, r, sigma))
         ELSE norm_cdf(d1(S, K, T, r, sigma)) - FP

calculate_vanna(S, K, T, r, sigma, option_type) ==
    IF T <= 0 THEN 0
    ELSE Div(Mul(-norm_pdf(d1(S, K, T, r, sigma)), d2(S, K, T, r, sigma)), sigma)

calculate_charm(S, K, T, r, sigma, option_type) ==
    IF T <= 0 THEN 0
    ELSE LET term1 == Mul(norm_pdf(d1(S, K, T, r, sigma)),
                          Div(r, Mul(sigma, np_sqrt(T)))
                            - (d2(S, K, T, r, sigma) * TScale) \div (2 * T))
         IN IF option_type = "call" THEN -term1
            ELSE -term1 + Mul(r, np_exp(-((r * T) \div TScale)))

\* ------------------------------------------------------------------------
\* DataFrame helpers
\* ------------------------------------------------------------------------
Columns(df) == DOMAIN df[1]

\* df[c] = vals: adds the column c or overwrites it, row by row
RECURSIVE WithColumnRows(_, _, _, _)
WithColumnRows(df, c, vals, n) ==
    IF n = 0 THEN << >>
    ELSE Append(WithColumnRows(df, c, vals, n - 1), (c :> vals[n]) @@ df[n])

WithColumn(df, c, vals) == WithColumnRows(df, c, vals, Len(df))

RECURSIVE SumOver(_, _)
SumOver(f, S) ==
    IF S = {} THEN 0
    ELSE LET x == CHOOSE y \in S : TRUE IN f[x] + SumOver(f, S \ {x})

\* Series.sum()
ColumnSum(df, c) == SumOver([i \in DOMAIN df |-> df[i][c]], DOMAIN df)

RECURSIVE Ascending(_)
Ascending(S) ==
    IF S = {} THEN << >>
    ELSE LET m == CHOOSE x \in S : \A y \in S : x <= y
         IN << m >> \o Ascending(S \ {m})

\* A Series is a sequence of [index, value] entries in the order of the index.
RECURSIVE InsertByIndex(_, _)
InsertByIndex(e, sorted) ==
    IF sorted = << >> THEN << e >>
    ELSE IF e.index < Head(sorted).index THEN << e >> \o sorted
    ELSE << Head(sorted) >> \o InsertByIndex(e, Tail(sorted))

\* the index sorted from the highest label down
RECURSIVE sort_index_descending(_)
sort_index_descending(ser) ==
    IF ser = << >> THEN << >>
    ELSE LET m == CHOOSE n \in DOMAIN ser :
                    \A k \in DOMAIN ser : ser[n].index >= ser[k].index
         IN << ser[m] >>
              \o sort_index_descending(
                    [k \in 1 .. Len(ser) - 1 |-> IF k < m THEN ser[k] ELSE ser[k + 1]])

\* Series.sort_index()
RECURSIVE sort_index(_)
sort_index(ser) ==
    IF ser = << >> THEN << >>
    ELSE InsertByIndex(Head(ser), sort_index(Tail(ser)))

\* Series.cumsum()
RECURSIVE cumsum(_)
cumsum(ser) ==
    IF Len(ser) <= 1 THEN ser
    ELSE LET front == cumsum(SubSeq(ser, 1, Len(ser) - 1))
             last  == ser[Len(ser)]
         IN Append(front, [index |-> last.index,
                           value |-> front[Len(front)].value + last.value])

\* np.diff of a sequence of numbers
np_diff(xs) == [i \in 1 .. (IF Len(xs) = 0 THEN 0 ELSE Len(xs) - 1) |-> xs[i + 1] - xs[i]]

\* np.where(cond)[0]: the zero-based positions where xs is not 0, ascending
nonzero_positions(xs) == Ascending({i - 1 : i \in {j \in DOMAIN xs : xs[j] # 0}})

None == << >>
Some(x) == << x >>

\* ------------------------------------------------------------------------
\* class DealerBook
\* ------------------------------------------------------------------------
ClipLower == 1
DaysPerYear == 365
DefaultRiskFreeRate == 40
ContractMultiplier == 100
PercentMove == 100

\* __init__: T is derived from expiry only when the snapshot has no T column.
\* expiry is held as the whole number of days from now to the expiry.
DealerBook_init(snapshot) ==
    IF "T" \notin Columns(snapshot) /\ "expiry" \in Columns(snapshot)
    THEN WithColumn(snapshot, "T",
            [i \in DOMAIN snapshot |->
                LET T == (snapshot[i]["expiry"] * TScale) \div DaysPerYear
                IN IF T < ClipLower THEN ClipLower ELSE T])
    ELSE snapshot

\* the negated customer flow itself as the position
dealer_position_negated_flow(customer_net_buying) == -customer_net_buying

\* flat customer flow counted as buying
dealer_position_flat_short(customer_net_buying) ==
    IF customer_net_buying >= 0 THEN -1 ELSE 1

dealer_position_of(customer_net_buying) == IF customer_net_buying > 0 THEN -1 ELSE 1

estimate_inventory(df) ==
    IF "buy_to_open" \in Columns(df) /\ "sell_to_open" \in Columns(df)
    THEN WithColumn(df, "dealer_position",
            [i \in DOMAIN df |->
                dealer_position_of(df[i]["buy_to_open"] - df[i]["sell_to_open"])])
    ELSE WithColumn(df, "dealer_position", [i \in DOMAIN df |-> -1])

\* a statement that is skipped, without an error, when a column is absent
Statement_skipping(out, needed, updated) ==
    IF out.error # "none" \/ ~(needed \subseteq Columns(out.data)) THEN out
    ELSE [out EXCEPT !.data = updated]

\* One statement of calculate_greeks: it reads the columns `needed` of the
\* frame the earlier statements left and stores `updated`, or raises KeyError
\* and leaves the frame as it was when one of the columns is absent.
Statement(out, needed, updated) ==
    IF out.error # "none" THEN out
    ELSE IF ~(needed \subseteq Columns(out.data))
         THEN [out EXCEPT !.error = "KeyError"]
         ELSE [out EXCEPT !.data = updated]

\* the check for an existing dealer_position left out
needs_inventory_never(df) == FALSE

needs_inventory(df) == "dealer_position" \notin Columns(df)
\* gamma recomputed whether or not the source supplied it
needs_gamma_always(df) == TRUE

needs_gamma(df) == "gamma" \notin Columns(df)

gamma_column(df, S, r) ==
    WithColumn(df, "gamma",
        [i \in DOMAIN df |->
            calculate_gamma(S, df[i]["strike"], df[i]["T"], r, df[i]["iv"])])

\* the exposure without the dealer's direction
GEX_of_unsigned(gamma, open_interest, S, dealer_position) ==
    (gamma * open_interest * ContractMultiplier * (S * S)) \div PercentMove

GEX_of(gamma, open_interest, S, dealer_position) ==
    ((gamma * open_interest * ContractMultiplier * (S * S)) \div PercentMove)
        * dealer_position

\* the exposure added to the GEX already on the record
GEX_column_accumulating(df, S) ==
    WithColumn(df, "GEX",
        [i \in DOMAIN df |->
            (IF "GEX" \in Columns(df) THEN df[i]["GEX"] ELSE 0)
            + GEX_of(df[i]["gamma"], df[i]["open_interest"], S, df[i]["dealer_position"])])

GEX_column(df, S) ==
    WithColumn(df, "GEX",
        [i \in DOMAIN df |->
            GEX_of(df[i]["gamma"], df[i]["open_interest"], S, df[i]["dealer_position"])])

vanna_column(df, S, r) ==
    WithColumn(df, "vanna",
        [i \in DOMAIN df |->
            calculate_vanna(S, df[i]["strike"], df[i]["T"], r, df[i]["iv"], df[i]["type"])])

net_of(greek, open_interest, dealer_position) ==
    greek * open_interest * ContractMultiplier * dealer_position

net_vanna_column(df) ==
    WithColumn(df, "net_vanna",
        [i \in DOMAIN df |->
            net_of(df[i]["vanna"], df[i]["open_interest"], df[i]["dealer_position"])])

charm_column(df, S, r) ==
    WithColumn(df, "charm",
        [i \in DOMAIN df |->
            calculate_charm(S, df[i]["strike"], df[i]["T"], r, df[i]["iv"], df[i]["type"])])

net_charm_column(df) ==
    WithColumn(df, "net_charm",
        [i \in DOMAIN df |->
            net_of(df[i]["charm"], df[i]["open_interest"], df[i]["dealer_position"])])

\* calculate_greeks: the frame it leaves, the error it raises ("none" when it
\* returns) and the methods it called on the way.
calculate_greeks(df, S, r) ==
    LET s0 == IF needs_inventory(df)
              THEN [data |-> estimate_inventory(df), error |-> "none",
                    calls |-> << "estimate_inventory" >>]
              ELSE [data |-> df, error |-> "none", calls |-> << >>]
        s1 == IF needs_gamma(s0.data)
              THEN Statement(s0, {"strike", "T", "iv"}, gamma_column(s0.data, S, r))
              ELSE s0
        s2 == Statement(s1, {"gamma", "open_interest", "dealer_position"},
                        GEX_column(s1.data, S))
        s3 == Statement(s2, {"strike", "T", "iv", "type"}, vanna_column(s2.data, S, r))
        s4 == Statement(s3, {"vanna", "open_interest", "dealer_position"},
                        net_vanna_column(s3.data))
        s5 == Statement(s4, {"strike", "T", "iv", "type"}, charm_column(s4.data, S, r))
        s6 == Statement(s5, {"charm", "open_interest", "dealer_position"},
                        net_charm_column(s5.data))
    IN s6

\* a book without GEX taken to have no exposure
get_total_gex_defaulting(df) ==
    IF "GEX" \notin Columns(df) THEN [error |-> "none", total |-> 0]
    ELSE [error |-> "none", total |-> ColumnSum(df, "GEX")]

get_total_gex(df) ==
    IF "GEX" \notin Columns(df) THEN [error |-> "KeyError"]
    ELSE [error |-> "none", total |-> ColumnSum(df, "GEX")]

\* the first GEX of each strike instead of the sum over the group
groupby_strike_first(df) ==
    LET keys == Ascending({df[i]["strike"] : i \in DOMAIN df})
    IN [n \in DOMAIN keys |->
            [index |-> keys[n],
             value |-> df[CHOOSE i \in DOMAIN df :
                            /\ df[i]["strike"] = keys[n]
                            /\ \A j \in DOMAIN df :
                                    df[j]["strike"] = keys[n] => i <= j]["GEX"]]]

\* groupby('strike')['GEX'].sum(): one entry per distinct strike, the group
\* keys in ascending order
groupby_strike_sum(df) ==
    LET keys == Ascending({df[i]["strike"] : i \in DOMAIN df})
    IN [n \in DOMAIN keys |->
            [index |-> keys[n],
             value |-> SumOver([i \in DOMAIN df |-> df[i]["GEX"]],
                               {i \in DOMAIN df : df[i]["strike"] = keys[n]})]]

get_gex_by_strike(df) ==
    IF ~({"strike", "GEX"} \subseteq Columns(df)) THEN [error |-> "KeyError"]
    ELSE [error |-> "none", by_strike |-> groupby_strike_sum(df)]

\* the position before the flip instead of the one after it
flip_index_before(crossings) == crossings[1]

flip_index(crossings) == crossings[1] + 1

find_gamma_flip_strike(df) ==
    LET grouped == get_gex_by_strike(df)
    IN IF grouped.error # "none" THEN [error |-> grouped.error]
       ELSE LET gex_by_strike == sort_index(grouped.by_strike)
                cumsum_gex == cumsum(gex_by_strike)
                signs == [i \in DOMAIN cumsum_gex |-> np_sign(cumsum_gex[i].value)]
                diffs == np_diff(signs)
                crossings == nonzero_positions(diffs)
            IN IF Len(crossings) > 0
               THEN [error |-> "none",
                     flip |-> Some(gex_by_strike[flip_index(crossings) + 1].index)]
               ELSE [error |-> "none", flip |-> None]

\* ------------------------------------------------------------------------
\* The snapshots the caller passes to the constructor
\* ------------------------------------------------------------------------
MaxRows == 3

InputColumns ==
    {"strike", "type", "T", "expiry", "iv", "open_interest",
     "buy_to_open", "sell_to_open", "gamma"}

Spots == {10}
Strikes == {9, 10, 11}

Restrict(row, cs) == [k \in cs |-> row[k]]

FramesOver(rows) == UNION {[1 .. n -> rows] : n \in 1 .. MaxRows}

\* Two contracts with a value for every input column: an expired put with no
\* open interest and flat customer flow, and a live call the customers bought.
TemplateFrame ==
    << [strike |-> 11, type |-> "put", T |-> 0, expiry |-> -3, iv |-> 300,
        open_interest |-> 0, buy_to_open |-> 1, sell_to_open |-> 1, gamma |-> 0],
       [strike |-> 10, type |-> "call", T |-> TScale, expiry |-> 365, iv |-> 200,
        open_interest |-> 1, buy_to_open |-> 1, sell_to_open |-> 0, gamma |-> 250] >>

\* The template under every combination of input columns present or absent.
ColumnSnapshots ==
    {[i \in DOMAIN TemplateFrame |-> Restrict(TemplateFrame[i], cs)] :
        cs \in SUBSET InputColumns}

\* One contract over a grid of values, with and without the optional columns.
GridSnapshots ==
    { << Restrict([strike |-> k, type |-> ty, T |-> t, iv |-> v, open_interest |-> oi,
                   buy_to_open |-> 1, sell_to_open |-> 2, gamma |-> 140], cs) >> :
        k \in Strikes, ty \in {"call", "put"}, t \in {-TScale, 1, TScale},
        v \in {200, 300}, oi \in {0, 2},
        cs \in {InputColumns \ {"expiry"},
                InputColumns \ {"expiry", "gamma"},
                InputColumns \ {"expiry", "gamma", "buy_to_open"}} }

\* A strike ladder with every column the engine reads: one-year calls with a
\* source-supplied gamma, listed from the highest strike down (several
\* contracts may share a strike).  A contract has open interest 1 and is
\* bought or sold by the customers, or open interest 2 and is bought.
LadderFlows == { << 1, 1, 0 >>, << 1, 0, 1 >>, << 2, 1, 0 >> }

LadderRows ==
    { [strike |-> k, type |-> "call", T |-> TScale, iv |-> 200,
       open_interest |-> f[1], buy_to_open |-> f[2], sell_to_open |-> f[3],
       gamma |-> 250] :
            k \in Strikes, f \in LadderFlows }

LadderSnapshots ==
    {f \in FramesOver(LadderRows) :
        \A i \in 1 .. Len(f) - 1 : f[i]["strike"] >= f[i + 1]["strike"]}

Snapshots == ColumnSnapshots \cup GridSnapshots \cup LadderSnapshots

\* ------------------------------------------------------------------------
\* State
\* ------------------------------------------------------------------------
VARIABLES
    data,            \* self.data
    spot_price,      \* self.spot_price
    risk_free_rate,  \* self.risk_free_rate
    ret,             \* the last call on the book and what it returned or raised
    caller_data      \* the DataFrame the caller passed to the constructor

vars == << data, spot_price, risk_free_rate, ret, caller_data >>

\* self.data = data: the book and the caller share one frame
frame_of_caller_shared(passed, book) == book

\* self.data = data.copy(): the frame the caller passed, when the frame of the
\* book holds `book`
frame_of_caller(passed, book) == passed

Init ==
    \E snapshot \in Snapshots, spot \in Spots :
        /\ data = DealerBook_init(snapshot)
        /\ caller_data = frame_of_caller(snapshot, DealerBook_init(snapshot))
        /\ spot_price = spot
        /\ risk_free_rate = DefaultRiskFreeRate
        /\ ret = [op |-> "__init__", error |-> "none"]

EstimateInventory ==
    /\ data' = estimate_inventory(data)
    /\ ret' = [op |-> "estimate_inventory", error |-> "none"]
    /\ caller_data' = frame_of_caller(caller_data, data')
    /\ UNCHANGED << spot_price, risk_free_rate >>

CalculateGreeks ==
    LET out == calculate_greeks(data, spot_price, risk_free_rate)
    IN /\ data' = out.data
       /\ ret' = [op |-> "calculate_greeks", error |-> out.error, calls |-> out.calls]
       /\ caller_data' = frame_of_caller(caller_data, data')
       /\ UNCHANGED << spot_price, risk_free_rate >>

GetTotalGex ==
    LET out == get_total_gex(data)
    IN /\ ret' = IF out.error # "none"
                 THEN [op |-> "get_total_gex", error |-> out.error]
                 ELSE [op |-> "get_total_gex", error |-> "none", total |-> out.total]
       /\ UNCHANGED << data, spot_price, risk_free_rate, caller_data >>

GetGexByStrike ==
    LET out == get_gex_by_strike(data)
    IN /\ ret' = IF out.error # "none"
                 THEN [op |-> "get_gex_by_strike", error |-> out.error]
                 ELSE [op |-> "get_gex_by_strike", error |-> "none",
                       by_strike |-> out.by_strike]
       /\ UNCHANGED << data, spot_price, risk_free_rate, caller_data >>

\* the records sorted by strike in place before the scan
FindGammaFlipStrike_sorting_records ==
    LET out == find_gamma_flip_strike(data)
        order == Ascending({data[i]["strike"] : i \in DOMAIN data})
    IN /\ ret' = IF out.error # "none"
                 THEN [op |-> "find_gamma_flip_strike", error |-> out.error]
                 ELSE [op |-> "find_gamma_flip_strike", error |-> "none",
                       flip |-> out.flip]
       /\ data' = IF "strike" \in Columns(data) /\ Len(order) = Len(data)
                  THEN [n \in DOMAIN data |->
                            data[CHOOSE i \in DOMAIN data :
                                    data[i]["strike"] = order[n]]]
                  ELSE data
       /\ UNCHANGED << spot_price, risk_free_rate, caller_data >>

FindGammaFlipStrike ==
    LET out == find_gamma_flip_strike(data)
    IN /\ ret' = IF out.error # "none"
                 THEN [op |-> "find_gamma_flip_strike", error |-> out.error]
                 ELSE [op |-> "find_gamma_flip_strike", error |-> "none",
                       flip |-> out.flip]
       /\ UNCHANGED << data, spot_price, risk_free_rate, caller_data >>

Next ==
    \/ EstimateInventory
    \/ CalculateGreeks
    \/ GetTotalGex
    \/ GetGexByStrike
    \/ FindGammaFlipStrike

Spec == Init /\ [][Next]_vars

\* ------------------------------------------------------------------------
\* The delta primitive on its own: one contract supplies K, T and sigma, the
\* book S and r, as calculate_greeks feeds the other primitives; ret.delta
\* holds the value returned for each option type asked so far.
\* ------------------------------------------------------------------------
DeltaSpots == {9, 10, 11}
DeltaContracts ==
    { [strike |-> k, T |-> t, iv |-> v] :
        k \in Strikes, t \in {-TScale, 0, 1, TScale}, v \in {200, 300} }

DeltaInit ==
    \E contract \in DeltaContracts, spot \in DeltaSpots :
        /\ data = << contract >>
        /\ caller_data = << contract >>
        /\ spot_price = spot
        /\ risk_free_rate = DefaultRiskFreeRate
        /\ ret = [op |-> "__init__", error |-> "none"]

CalculateDelta ==
    \E option_type \in {"call", "put"} :
        LET value == calculate_delta(spot_price, data[1]["strike"], data[1]["T"],
                                     risk_free_rate, data[1]["iv"], option_type)
            asked == IF ret.op = "calculate_delta" THEN ret.delta ELSE << >>
        IN /\ ret' = [op |-> "calculate_delta", error |-> "none",
                      delta |-> (option_type :> value) @@ asked]
           /\ UNCHANGED << data, spot_price, risk_free_rate, caller_data >>

DeltaNext == CalculateDelta

DeltaSpec == DeltaInit /\ [][DeltaNext]_vars

\* ------------------------------------------------------------------------
\* Properties
\* ------------------------------------------------------------------------
Rows == DOMAIN data
Has(c) == c \in Columns(data)
Returned(op) == ret.op = op /\ ret.error = "none"

\* The strikes of the book in ascending order, and the exposure summed over
\* all contracts struck at or below k.
StrikeLadder == Ascending({data[i]["strike"] : i \in Rows})
CumulativeGex(k) ==
    SumOver([i \in Rows |-> data[i]["GEX"]], {i \in Rows : data[i]["strike"] <= k})
SignOf(x) == IF x > 0 THEN 1 ELSE IF x < 0 THEN -1 ELSE 0
SignAt(n) == SignOf(CumulativeGex(StrikeLadder[n]))
SignChanges == {n \in 1 .. Len(StrikeLadder) - 1 : SignAt(n) # SignAt(n + 1)}
FirstSignChange == CHOOSE n \in SignChanges : \A m \in SignChanges : n <= m

\* C1: when some adjacent pair of cumulative per-strike GEX sums differs in
\* sign, find_gamma_flip_strike returns the strike right after the first
\* such pair; later sign changes are ignored.
C1_FlipIsStrikeAfterFirstSignChange ==
    (Returned("find_gamma_flip_strike") /\ SignChanges # {})
        => ret.flip = Some(StrikeLadder[FirstSignChange + 1])

C1_Witness ==
    /\ Returned("find_gamma_flip_strike")
    /\ Cardinality(SignChanges) >= 2
    /\ ret.flip = Some(StrikeLadder[2])

\* C2: on a book with per-strike GEX sums, find_gamma_flip_strike returns
\* None, and raises nothing, when no adjacent pair of cumulative sums differs
\* in sign: all sums positive, all negative, or fewer than two strikes.
C2_NoSignChangeGivesNone ==
    (ret.op = "find_gamma_flip_strike" /\ Has("strike") /\ Has("GEX")
        /\ SignChanges = {})
        => (ret.error = "none" /\ ret.flip = None)

C2_Witness ==
    /\ Returned("find_gamma_flip_strike")
    /\ Len(StrikeLadder) = 3
    /\ \A n \in DOMAIN StrikeLadder : SignAt(n) = 1
    /\ ret.flip = None

\* C3: estimate_inventory sets dealer_position to -1 where buy_to_open -
\* sell_to_open > 0 and to +1 where it is <= 0 when both volume columns are
\* present, and to -1 on every record when the volume columns are absent.
C3_InventoryRule ==
    ret.op = "estimate_inventory" =>
        /\ (Has("buy_to_open") /\ Has("sell_to_open")) =>
                \A i \in Rows :
                    /\ data[i]["buy_to_open"] - data[i]["sell_to_open"] > 0
                            => data[i]["dealer_position"] = -1
                    /\ data[i]["buy_to_open"] - data[i]["sell_to_open"] <= 0
                            => data[i]["dealer_position"] = 1
        /\ (~Has("buy_to_open") /\ ~Has("sell_to_open")) =>
                \A i \in Rows : data[i]["dealer_position"] = -1

C3_Witness ==
    /\ ret.op = "estimate_inventory"
    /\ Has("buy_to_open") /\ Has("sell_to_open")
    /\ \E i, j \in Rows :
            /\ data[i]["buy_to_open"] = data[i]["sell_to_open"]
            /\ data[i]["dealer_position"] = 1
            /\ data[j]["buy_to_open"] > data[j]["sell_to_open"]
            /\ data[j]["dealer_position"] = -1

\* C4: calculate_greeks on a book without dealer_position runs
\* estimate_inventory first; on a book that has it, it keeps the positions
\* and calls nothing; and when it returns, every record has dealer_position,
\* GEX, net_vanna and net_charm.
C4_GreeksEstimatesInventoryWhenAbsent ==
    [][ret'.op = "calculate_greeks" =>
        /\ ~Has("dealer_position") =>
                /\ ret'.calls = << "estimate_inventory" >>
                /\ "dealer_position" \in Columns(data')
        /\ Has("dealer_position") =>
                /\ ret'.calls = << >>
                /\ \A i \in Rows :
                        data'[i]["dealer_position"] = data[i]["dealer_position"]
        /\ ret'.error = "none" =>
                {"dealer_position", "GEX", "net_vanna", "net_charm"}
                    \subseteq Columns(data')
      ]_vars

C4_Witness ==
    /\ Returned("calculate_greeks")
    /\ ret.calls = << "estimate_inventory" >>
    /\ {"dealer_position", "GEX", "net_vanna", "net_charm"} \subseteq Columns(data)
    /\ \E i, j \in Rows : data[i]["dealer_position"] # data[j]["dealer_position"]

\* C5: a second calculate_greeks right after one that returned also returns
\* and leaves GEX, net_vanna and net_charm of every record as they were.
C5_GreeksIdempotent ==
    [][(Returned("calculate_greeks") /\ ret'.op = "calculate_greeks") =>
        /\ ret'.error = "none"
        /\ \A i \in Rows : \A c \in {"GEX", "net_vanna", "net_charm"} :
                data'[i][c] = data[i][c]
      ]_vars

C5_Witness ==
    /\ Returned("calculate_greeks")
    /\ ret.calls = << >>
    /\ \E i \in Rows :
            data[i]["GEX"] # 0 /\ data[i]["net_vanna"] # 0 /\ data[i]["net_charm"] # 0

\* C6: calculate_greeks leaves a gamma column that is present as it is and
\* computes GEX from it; it fills gamma from the Black-Scholes formula only
\* when the column is missing.
C6_SuppliedGammaKept ==
    [][ret'.op = "calculate_greeks" =>
        /\ Has("gamma") =>
                \A i \in Rows :
                    /\ data'[i]["gamma"] = data[i]["gamma"]
                    /\ "GEX" \in Columns(data') =>
                            data'[i]["GEX"] * PercentMove =
                                data[i]["gamma"] * data[i]["open_interest"]
                                    * ContractMultiplier * spot_price * spot_price
                                    * data'[i]["dealer_position"]
        /\ (~Has("gamma") /\ "gamma" \in Columns(data')) =>
                \A i \in Rows :
                    data'[i]["gamma"] =
                        calculate_gamma(spot_price, data[i]["strike"], data[i]["T"],
                                        risk_free_rate, data[i]["iv"])
      ]_vars

C6_Witness ==
    /\ Returned("calculate_greeks")
    /\ \E i \in Rows :
            /\ data[i]["gamma"] #
                    calculate_gamma(spot_price, data[i]["strike"], data[i]["T"],
                                    risk_free_rate, data[i]["iv"])
            /\ data[i]["GEX"] # 0

\* C7: get_gex_by_strike has exactly one entry per distinct strike of the
\* book, its value the sum of GEX over the records at that strike, so that
\* the values add up to get_total_gex.
C7_GexByStrikeSumsEveryRecord ==
    Returned("get_gex_by_strike") =>
        LET series == ret.by_strike
            keys == {series[n].index : n \in DOMAIN series}
        IN /\ keys = {data[i]["strike"] : i \in Rows}
           /\ Cardinality(keys) = Len(series)
           /\ \A n \in DOMAIN series :
                series[n].value =
                    SumOver([i \in Rows |-> data[i]["GEX"]],
                            {i \in Rows : data[i]["strike"] = series[n].index})
           /\ SumOver([n \in DOMAIN series |-> series[n].value], DOMAIN series)
                = get_total_gex(data).total

C7_Witness ==
    /\ Returned("get_gex_by_strike")
    /\ Len(ret.by_strike) = 2
    /\ \E i, j \in Rows :
            /\ i # j
            /\ data[i]["strike"] = data[j]["strike"]
            /\ data[i]["GEX"] # data[j]["GEX"]
            /\ data[i]["GEX"] + data[j]["GEX"] # 0

\* C8: calculate_greeks raises, and does not return, whenever strike,
\* open_interest, iv, type or T is missing from the book, whichever optional
\* columns are present.
C8_MissingRequiredColumnRaises ==
    (ret.op = "calculate_greeks"
        /\ ~({"strike", "open_interest", "iv", "type", "T"} \subseteq Columns(data)))
        => ret.error = "KeyError"

C8_Witness ==
    /\ ret.op = "calculate_greeks"
    /\ ret.error = "KeyError"
    /\ Columns(data) \cap {"strike", "open_interest", "iv", "type", "T"}
            = {"strike", "open_interest", "iv", "T"}
    /\ Has("gamma") /\ Has("buy_to_open") /\ Has("sell_to_open")

\* C9: after calculate_greeks every GEX is gamma * open_interest * 100 *
\* spot_price^2 * 0.01 * dealer_position of its record; its sign is that of
\* dealer_position when gamma and open_interest are positive, and it is 0
\* when open_interest is 0.
C9_GexFormula ==
    (ret.op = "calculate_greeks" /\ Has("GEX")) =>
        \A i \in Rows :
            /\ data[i]["GEX"] * PercentMove =
                    data[i]["gamma"] * data[i]["open_interest"] * ContractMultiplier
                        * spot_price * spot_price * data[i]["dealer_position"]
            /\ (data[i]["gamma"] > 0 /\ data[i]["open_interest"] > 0) =>
                    SignOf(data[i]["GEX"]) = SignOf(data[i]["dealer_position"])
            /\ data[i]["open_interest"] = 0 => data[i]["GEX"] = 0

C9_Witness ==
    /\ Returned("calculate_greeks")
    /\ \E i, j \in Rows : data[i]["GEX"] > 0 /\ data[j]["GEX"] < 0

\* C10: once estimate_inventory has run, every dealer_position is +1 or -1
\* in every later state; estimate_inventory runs in any state without an
\* error and changes nothing but the dealer_position column.
C10_PositionsAreLongOrShort ==
    /\ [](Has("dealer_position") =>
            \A i \in Rows : data[i]["dealer_position"] \in {1, -1})
    /\ [][ret'.op = "estimate_inventory" =>
            /\ ret'.error = "none"
            /\ Len(data') = Len(data)
            /\ Columns(data') = Columns(data) \cup {"dealer_position"}
            /\ \A i \in Rows : \A c \in Columns(data) \ {"dealer_position"} :
                    data'[i][c] = data[i][c]
            /\ spot_price' = spot_price
            /\ risk_free_rate' = risk_free_rate
         ]_vars

C10_Witness ==
    /\ ret.op = "estimate_inventory"
    /\ Has("GEX") /\ Has("net_charm")
    /\ \E i, j \in Rows :
            data[i]["dealer_position"] = 1 /\ data[j]["dealer_position"] = -1

\* C11: once the book is constructed, the time to expiry T of every record
\* is at least the floor 0.0001, never zero or negative, whether T was
\* derived from expiry or supplied by the caller.
C11_TimeToExpiryAtLeastFloor ==
    Has("T") => \A i \in Rows : data[i]["T"] >= ClipLower

\* C12: for identical inputs (S, K, T, r, sigma), calculate_delta for a call
\* minus calculate_delta for a put equals 1.
C12_DeltaParity ==
    (ret.op = "calculate_delta" /\ DOMAIN ret.delta = {"call", "put"})
        => ret.delta["call"] - ret.delta["put"] = FP

\* C12 as amended: the difference is 1 when T > 0; when T <= 0 both deltas
\* are 0.0 and the difference is 0.
C12_DeltaParityWhenLive ==
    (ret.op = "calculate_delta" /\ DOMAIN ret.delta = {"call", "put"}) =>
        /\ data[1]["T"] > 0 => ret.delta["call"] - ret.delta["put"] = FP
        /\ data[1]["T"] <= 0 => (ret.delta["call"] = 0 /\ ret.delta["put"] = 0)

C12_Witness ==
    /\ ret.op = "calculate_delta"
    /\ DOMAIN ret.delta = {"call", "put"}
    /\ data[1]["T"] > 0
    /\ ret.delta["call"] > FP \div 2 /\ ret.delta["call"] < FP
    /\ ret.delta["put"] < 0

\* C13: a cumulative GEX sum of exactly zero has a sign of its own: an
\* adjacent pair of cumulative sums of which exactly one is zero is a
\* crossing, and find_gamma_flip_strike returns the strike at the second
\* position of that pair when no earlier pair differs in sign, also when the
\* sums touch zero and come back to the sign they had.
C13_ZeroIsItsOwnSign ==
    Returned("find_gamma_flip_strike") =>
        \A n \in 1 .. Len(StrikeLadder) - 1 :
            ( /\ (CumulativeGex(StrikeLadder[n]) = 0)
                    # (CumulativeGex(StrikeLadder[n + 1]) = 0)
              /\ \A m \in 1 .. n - 1 : SignAt(m) = SignAt(m + 1) )
                => ret.flip = Some(StrikeLadder[n + 1])

C13_Witness ==
    /\ Returned("find_gamma_flip_strike")
    /\ Len(StrikeLadder) = 3
    /\ CumulativeGex(StrikeLadder[1]) < 0
    /\ CumulativeGex(StrikeLadder[2]) = 0
    /\ CumulativeGex(StrikeLadder[3]) < 0
    /\ ret.flip = Some(StrikeLadder[2])

\* C14: get_total_gex, get_gex_by_strike and find_gamma_flip_strike are pure
\* reads: a call leaves the records, spot_price and risk_free_rate as they
\* were, and the same query called again with nothing in between gives the
\* result it gave before.
Queries == {"get_total_gex", "get_gex_by_strike", "find_gamma_flip_strike"}

C14_QueriesArePureReads ==
    [][ret'.op \in Queries =>
        /\ data' = data
        /\ spot_price' = spot_price
        /\ risk_free_rate' = risk_free_rate
        /\ ret.op = ret'.op => ret' = ret
      ]_vars

C14_Witness ==
    /\ Returned("find_gamma_flip_strike")
    /\ ret.flip # None
    /\ \E i, j \in Rows : i < j /\ data[i]["strike"] > data[j]["strike"]

\* C15: whenever find_gamma_flip_strike returns a strike, the cumulative GEX
\* sum goes from negative to positive there: it is negative at the strike
\* before the returned one and positive at the returned strike.
C15_FlipIsNegativeToPositive ==
    (Returned("find_gamma_flip_strike") /\ ret.flip # None) =>
        \E n \in 1 .. Len(StrikeLadder) - 1 :
            /\ ret.flip = Some(StrikeLadder[n + 1])
            /\ CumulativeGex(StrikeLadder[n]) < 0
            /\ CumulativeGex(StrikeLadder[n + 1]) > 0

\* C16: every strike find_gamma_flip_strike returns is the strike of some
\* record of the book and is strictly greater than the lowest strike of the
\* book; the lowest strike is never reported, whatever its exposure.
C16_FlipAboveLowestStrike ==
    (Returned("find_gamma_flip_strike") /\ ret.flip # None) =>
        /\ \E i \in Rows : ret.flip = Some(data[i]["strike"])
        /\ ret.flip[1] > StrikeLadder[1]

C16_Witness ==
    /\ Returned("find_gamma_flip_strike")
    /\ Len(StrikeLadder) = 3
    /\ CumulativeGex(StrikeLadder[1]) # 0
    /\ SignAt(1) = SignAt(2)
    /\ ret.flip = Some(StrikeLadder[3])

\* C17: the book works on its own copy of the snapshot: no sequence of
\* estimate_inventory, calculate_greeks and queries adds a column to the
\* DataFrame the caller passed to the constructor or changes a value in it.
C17_CallerFrameUntouched ==
    /\ [](Columns(caller_data) \subseteq InputColumns)
    /\ [][caller_data' = caller_data]_vars

C17_Witness ==
    /\ Returned("calculate_greeks")
    /\ ret.calls = << "estimate_inventory" >>
    /\ Columns(caller_data) \cap {"T", "expiry", "gamma"} = {"expiry"}
    /\ {"T", "gamma", "dealer_position", "GEX", "net_vanna", "net_charm"}
            \subseteq Columns(data)

\* C18: on a book built from a snapshot without a GEX column the three
\* queries, called before the first calculate_greeks (with or without
\* estimate_inventory before them), raise an error, return no value
\* (find_gamma_flip_strike does not return None) and leave the book as it
\* was; once calculate_greeks has returned, they return values from then on.
\* GEX is absent from the book until calculate_greeks stores it, and the
\* columns the queries read stay once calculate_greeks has returned.
GreeksReturnedOnce == {"strike", "GEX", "net_charm"} \subseteq Columns(data)

C18_QueriesNeedGreeksFirst ==
    /\ [](("GEX" \notin Columns(caller_data) /\ ret.op \in Queries /\ ~Has("GEX"))
            => ret.error = "KeyError")
    /\ [](Returned("calculate_greeks") => GreeksReturnedOnce)
    /\ []((ret.op \in Queries /\ GreeksReturnedOnce) => ret.error = "none")
    /\ [][ /\ (~Has("GEX") /\ "GEX" \in Columns(data'))
                => ret'.op = "calculate_greeks"
           /\ (ret'.op \in Queries /\ ret'.error # "none") => data' = data
           /\ GreeksReturnedOnce => GreeksReturnedOnce'
         ]_vars

C18_Witness ==
    /\ ret.op = "find_gamma_flip_strike"
    /\ ret.error = "KeyError"
    /\ Has("dealer_position")
    /\ {"strike", "type", "T", "iv", "open_interest", "gamma"} \subseteq Columns(data)

C18_WitnessAfterGreeks ==
    /\ Returned("get_total_gex")
    /\ GreeksReturnedOnce
    /\ ret.total # 0

====
